---- MODULE Spec2Model ----
(***************************************************************************)
(* Model of app.py: the CACI forecast service.                             *)
(*   - module-level loading of the model and its two scalers               *)
(*   - scheduled_prediction_job: fetch -> transform -> publish             *)
(*   - predict_caci_internal: the Flask endpoint that runs the ML math     *)
(*   - the BackgroundScheduler interval job that fires the ticks           *)
(* Numbers: feature values are small integers; the model output is kept in *)
(* thousandths (pred_actual) and the rounded forecast in hundredths.       *)
(***************************************************************************)
EXTENDS Integers, Sequences, FiniteSets, TLC

\* ------------------------------------------------------------------ bounds
\* Number of scheduler ticks explored.
MaxTicks == 2

\* APScheduler's per-job limit on concurrently running instances; add_job is
\* called without max_instances, so the library default applies.
MaxInstances == 1

\* ------------------------------------------------------------- JSON values
\* A JSON value as Python sees it after parsing.  "absent" marks a key that
\* is not in the object.
Absent == [kind |-> "absent", num |-> 0]
Null == [kind |-> "null", num |-> 0]
Str == [kind |-> "str", num |-> 0]
NaN == [kind |-> "nan", num |-> 0]
NanStr == [kind |-> "nanstr", num |-> 0]
Num(n) == [kind |-> "num", num |-> n]
NumStr(n) == [kind |-> "numstr", num |-> n]

\* Feature keys in training order, and the telemetry fields they come from.
Keys == <<"CO2", "Temp", "Hum", "AQI", "CACI">>
Fields == <<"field1", "field2", "field3", "field4", "field5">>
KeySet == {Keys[i] : i \in 1..5}
FieldSet == {Fields[i] : i \in 1..5}
BodyKeys == KeySet \cup {"Extra"}

Unset == [has |-> FALSE, val |-> 0]
Value(v) == [has |-> TRUE, val |-> v]

\* ------------------------------------------------------------ input ranges
\* Telemetry feeds: every field a numeric string.
AllFeed(n) == [f \in FieldSet |-> NumStr(n)]
OneHotFeed(i) == [f \in FieldSet |-> IF f = Fields[i] THEN NumStr(1) ELSE NumStr(0)]
OddFieldValues == {Absent, Null, Str, NanStr}
FeedObjects ==
    {AllFeed(0), AllFeed(1)}
        \cup {OneHotFeed(i) : i \in 1..5}
        \cup {[AllFeed(1) EXCEPT ![Fields[i]] = v] : i \in 1..5, v \in OddFieldValues}
        \cup {[f \in FieldSet |-> Absent]}
NoFeed == [f \in FieldSet |-> Absent]
\* What requests.get(read_url, timeout=10).json() can meet.
TelemetryResponses ==
    {[kind |-> k, obj |-> NoFeed] : k \in {"neterr", "noresponse", "notjson", "scalar"}}
        \cup {[kind |-> "object", obj |-> o] : o \in FeedObjects}

\* Request bodies of the transform endpoint.
EmptyObj == [k \in BodyKeys |-> Absent]
AllBody(n) == [k \in BodyKeys |-> IF k = "Extra" THEN Absent ELSE Num(n)]
OneHotBody(i) == [k \in BodyKeys |-> IF k = Keys[i] THEN Num(1) ELSE IF k = "Extra" THEN Absent ELSE Num(0)]
OddKeyValues == {Absent, Str, NaN, Num(0)}
BodyObjects ==
    {EmptyObj, AllBody(0), AllBody(1), [AllBody(1) EXCEPT !["Extra"] = Num(1)]}
        \cup {OneHotBody(i) : i \in 1..5}
        \cup {[AllBody(1) EXCEPT ![Keys[i]] = v] : i \in 1..5, v \in OddKeyValues}
ExternalBodies ==
    {[kind |-> "nonobject", obj |-> EmptyObj]}
        \cup {[kind |-> "object", obj |-> o] : o \in BodyObjects}

\* -------------------------------------------------------------- exceptions
ExceptionClasses ==
    {"Timeout", "ConnectionError", "JSONDecodeError", "AttributeError",
     "TypeError", "ValueError", "KeyError", "NameError", "InvalidJSONError"}

Ok(v) == [ok |-> TRUE, exc |-> "", val |-> v]
Raise(e) == [ok |-> FALSE, exc |-> e, val |-> <<>>]

\* ------------------------------------------------------- asset loading
\* Which joblib.load raises at import time ("none": all three load).
LoadFailures == {"none", "model", "scaler_X", "scaler_Y"}

\* Bug variant: the except branch leaves model bound when a scaler fails.
LoadAssets_KeepModel(f) ==
    [model |-> IF f = "model" THEN "None" ELSE "rf",
     scaler_X |-> IF f \in {"none", "scaler_Y"} THEN "sx" ELSE "unbound",
     scaler_Y |-> IF f = "none" THEN "sy" ELSE "unbound"]

\* The three module globals after the try/except of the loading block: the
\* loads run in order, the first failure skips the rest, and the handler then
\* sets model = None.
LoadAssets(f) ==
    [model |-> IF f = "none" THEN "rf" ELSE "None",
     scaler_X |-> IF f \in {"none", "scaler_Y"} THEN "sx" ELSE "unbound",
     scaler_Y |-> IF f = "none" THEN "sy" ELSE "unbound"]

\* ------------------------------------------------ the fitted assets
\* The pickled scalers and forest are not part of the sources; a fixed
\* triple stands in for them: a per-feature affine input scaler, a forest of
\* two small trees, and an affine output scaler yielding thousandths.
XScale == <<2, 3, 5, 7, 11>>
XShift == <<1, 0, 2, 0, 1>>
Tree1(s) ==
    IF s[1] > 2 THEN (IF s[5] > 5 THEN 640 ELSE 410)
    ELSE (IF s[4] > 3 THEN 520 ELSE 230)
Tree2(s) ==
    IF s[2] > 1 THEN (IF s[3] > 4 THEN 700 ELSE 450) ELSE 300

VARIABLES
    model, scaler_X, scaler_Y,  \* module globals set by the loading block
    loadError,                  \* which load raised at startup ("none" if none)
    pc,                         \* position of the scheduled job: Idle, fetch, transform, publish, hung
    ticks, skipped,             \* interval ticks fired / ticks dropped by the scheduler
    current_data,               \* local of scheduled_prediction_job
    predicted_caci,             \* local of scheduled_prediction_job
    field6,                     \* telemetry store: the output field
    runLog,                     \* the line printed by the current or latest run
    escaped,                    \* an exception left scheduled_prediction_job
    run,                        \* record of what the current or latest run did
    extTr                       \* latest transform call made by an external caller

vars == <<model, scaler_X, scaler_Y, loadError, pc, ticks, skipped, current_data,
          predicted_caci, field6, runLog, escaped, run, extTr>>

\* ------------------------------------------------------ Forecast Transform
\* Bug variant: the feature row is a buffer filled by an earlier request and
\* reused while it is there.
Assemble_Stale(body) ==
    IF body.kind # "object" THEN Raise("TypeError")
    ELSE IF \E i \in 1..5 : body.obj[Keys[i]].kind = "absent" THEN Raise("KeyError")
    ELSE IF extTr.resp.arg # <<>> THEN Ok(extTr.resp.arg)
    ELSE Ok([i \in 1..5 |-> body.obj[Keys[i]]])

\* Bug variant: Temp and Hum change places in the feature row.
Assemble_Swapped(body) ==
    IF body.kind # "object" THEN Raise("TypeError")
    ELSE IF \E i \in 1..5 : body.obj[Keys[i]].kind = "absent" THEN Raise("KeyError")
    ELSE Ok([i \in 1..5 |->
                body.obj[Keys[IF i = 2 THEN 3 ELSE IF i = 3 THEN 2 ELSE i]]])

\* np.array([[data['CO2'], data['Temp'], data['Hum'], data['AQI'], data['CACI']]])
\* on request.json: subscripting a non-object raises TypeError, a missing key
\* raises KeyError; keys other than the five are never read.
Assemble(body) ==
    IF body.kind # "object" THEN Raise("TypeError")
    ELSE IF \E i \in 1..5 : body.obj[Keys[i]].kind = "absent" THEN Raise("KeyError")
    ELSE Ok([i \in 1..5 |-> body.obj[Keys[i]]])

\* scaler_X.transform(input_data): needs a numeric array; NaN passes through.
scale_input(vec) ==
    IF scaler_X = "unbound" THEN Raise("NameError")
    ELSE IF \E i \in 1..5 : vec[i].kind \notin {"num", "nan"} THEN Raise("ValueError")
    ELSE Ok([i \in 1..5 |->
                IF vec[i].kind = "nan" THEN NaN
                ELSE Num(vec[i].num * XScale[i] + XShift[i])])

\* model.predict(input_scaled): the forest rejects NaN; otherwise the mean of
\* its trees.
predict(scaled) ==
    IF \E i \in 1..5 : scaled[i].kind = "nan" THEN Raise("ValueError")
    ELSE LET s == [i \in 1..5 |-> scaled[i].num]
         IN  Ok((Tree1(s) + Tree2(s)) \div 2)

\* scaler_Y.inverse_transform(pred_scaled.reshape(-1, 1))[0][0], in thousandths.
scale_output(p) ==
    IF scaler_Y = "unbound" THEN Raise("NameError")
    ELSE Ok(p * 97 + 1234)

\* round(float(pred_actual), 2): thousandths to hundredths, ties to even.
Round2(m) ==
    LET q == m \div 10
        r == m % 10
    IN  IF r < 5 THEN q
        ELSE IF r > 5 THEN q + 1
        ELSE IF q % 2 = 0 THEN q ELSE q + 1

\* Bug variant: except (KeyError, TypeError) only.
HandlerCatches_Narrow(exc) == exc \in {"KeyError", "TypeError"}

\* except Exception as e: every exception class the body can raise is caught.
HandlerCatches(exc) == exc \in ExceptionClasses

\* A response of the endpoint, with a trace of what the call did: steps lists
\* what the call went through, arg the vector handed to scale_input.
Response(status, pred, error, steps, arg) ==
    [status |-> status, pred |-> pred, error |-> error, steps |-> steps, arg |-> arg]
NoResponse == Response(0, Unset, "", <<>>, <<>>)

\* Bug variant: the except branch answers with the same status as the
\* model-not-loaded guard.
HandlerExcept_500(exc, steps, arg) ==
    Response(500, Unset, "Input data format is wrong.", steps, arg)

\* The except branch: 400 with the message; an exception it does not catch
\* leaves the view and Flask answers 500.
HandlerExcept(exc, steps, arg) ==
    IF HandlerCatches(exc)
    THEN Response(400, Unset, "Input data format is wrong.", steps, arg)
    ELSE Response(500, Unset, "Internal Server Error", steps, arg)

\* A capability is invoked unless its global is unbound (NameError).
Invoked(steps, name, r) ==
    IF ~r.ok /\ r.exc = "NameError" THEN steps ELSE Append(steps, name)

predict_caci_internal(body) ==
    IF model = "None" THEN Response(500, Unset, "Model not loaded", <<>>, <<>>)
    ELSE
      LET a == Assemble(body)
          st0 == <<"assemble">>
      IN
      IF ~a.ok THEN HandlerExcept(a.exc, st0, <<>>)
      ELSE
        LET s == scale_input(a.val)
            st1 == Invoked(st0, "scale_input", s)
        IN
        IF ~s.ok THEN HandlerExcept(s.exc, st1, IF Len(st1) = 2 THEN a.val ELSE <<>>)
        ELSE
          LET p == predict(s.val)
              st2 == Append(st1, "predict")
          IN
          IF ~p.ok THEN HandlerExcept(p.exc, st2, a.val)
          ELSE
            LET y == scale_output(p.val)
                st3 == Invoked(st2, "scale_output", y)
            IN
            IF ~y.ok THEN HandlerExcept(y.exc, st3, a.val)
            ELSE Response(200, Value(Round2(y.val)), "", st3, a.val)

\* -------------------------------------------------- scheduled_prediction_job
\* float(x) on a parsed JSON value.
PyFloat(v) ==
    CASE v.kind = "num" -> Ok(Num(v.num))
      [] v.kind = "numstr" -> Ok(Num(v.num))
      [] v.kind \in {"nan", "nanstr"} -> Ok(NaN)
      [] v.kind = "str" -> Raise("ValueError")
      [] OTHER -> Raise("TypeError")

\* Bug variant: response['field1'] in place of response.get('field1', 0).
Get_Strict(obj, key, default) == obj[key]

\* dict.get(key, default)
Get(obj, key, default) == IF obj[key].kind = "absent" THEN default ELSE obj[key]

\* The timeout= argument of each requests call: 10 s on the read and on the
\* internal POST, none on the write.
HasTimeout(stage) == stage \in {"fetch", "transform"}

\* What a requests call does when the peer never answers.
NoAnswer(stage) == IF HasTimeout(stage) THEN "Timeout" ELSE "hang"

\* The body of the first try block: the GET, .json(), and the five float()s.
FetchStage(resp) ==
    CASE resp.kind = "neterr" -> Raise("ConnectionError")
      [] resp.kind = "noresponse" -> Raise(NoAnswer("fetch"))
      [] resp.kind = "notjson" -> Raise("JSONDecodeError")
      [] resp.kind = "scalar" -> Raise("AttributeError")
      [] OTHER ->
           LET f == [i \in 1..5 |-> PyFloat(Get(resp.obj, Fields[i], Num(0)))] IN
           IF \E i \in 1..5 : ~f[i].ok
           THEN Raise(f[CHOOSE i \in 1..5 : ~f[i].ok /\ \A j \in 1..(i - 1) : f[j].ok].exc)
           ELSE Ok([k \in BodyKeys |->
                      IF k = "Extra" THEN Absent
                      ELSE f[CHOOSE i \in 1..5 : Keys[i] = k].val])

\* Bug variant: except requests.RequestException only.
JobCatches_RequestsOnly(exc) == exc \in {"Timeout", "ConnectionError"}

\* except Exception as e: both handlers of the job.
JobCatches(exc) == exc \in ExceptionClasses

\* Bug variant: the URL is built with {predicted_caci:.1f} cut to one decimal.
PyRepr_OneDecimal(h) == [int |-> h \div 100, frac |-> <<(h % 100) \div 10>>]

\* f"...&field6={predicted_caci}": repr of a float with at most two decimals,
\* as integer part and decimal digits; and the store reading it back.
PyRepr(h) ==
    [int |-> h \div 100,
     frac |-> IF h % 10 = 0 THEN <<(h % 100) \div 10>>
              ELSE <<(h % 100) \div 10, h % 10>>]
ParseDecimal(r) ==
    r.int * 100 + r.frac[1] * 10 + (IF Len(r.frac) > 1 THEN r.frac[2] ELSE 0)

\* str(e) in the job's except handlers: what the message of an exception
\* raised in the given stage names (the URL of a failed request, the missing
\* key, the value float() refused).
StrOf(exc, stage) ==
    CASE exc \in {"ConnectionError", "Timeout"} ->
           (CASE stage = "fetch" -> "api.thingspeak.com /channels/.../feeds/last.json"
              [] stage = "transform" -> "127.0.0.1 /predict_caci_internal"
              [] OTHER -> "api.thingspeak.com /update")
      [] exc = "JSONDecodeError" -> "Expecting value"
      [] exc = "AttributeError" -> "object has no attribute 'get'"
      [] exc = "ValueError" -> "could not convert string to float"
      [] exc = "TypeError" -> "float() argument must be a string or a real number"
      [] exc = "KeyError" -> "'predicted_caci_1hr'"
      [] exc = "InvalidJSONError" -> "Out of range float values are not JSON compliant"
      [] OTHER -> ""

\* A printed line: its fixed text, the exception it formats (class and
\* message), the status code or the forecast it formats.
LogLine(text, exc, about, status, value) ==
    [text |-> text, exc |-> exc, about |-> about, status |-> status, value |-> value]
NoLog == LogLine("", "", "", 0, Unset)

NoBody == [kind |-> "none", obj |-> EmptyObj]
NoFetch == [kind |-> "none", obj |-> NoFeed]

\* What the current run has done so far: the outcome of its fetch and the feed
\* it met, the outcome of its POST with the body sent and the answer read, the
\* outcome of its write with the value sent, field6 when it started, and how
\* many times it issued the read and the POST.
RunRecord(before) ==
    [fetch |-> "none", feed |-> NoFetch, post |-> "none", body |-> NoBody,
     tr |-> NoResponse, publish |-> "none", publishes |-> 0, sent |-> Unset,
     field6Before |-> before, fetches |-> 0, posts |-> 0]

NoCall == [src |-> "none", body |-> NoBody, resp |-> NoResponse]

\* The job returns: its locals are gone and the scheduler has a free slot.
EndRun ==
    /\ pc' = "Idle"
    /\ current_data' = EmptyObj
    /\ predicted_caci' = Unset

\* The call in flight never returns: the job thread stays where it is.
Hang ==
    /\ pc' = "hung"
    /\ UNCHANGED <<current_data, predicted_caci, runLog, escaped>>

Init ==
    /\ \E f \in LoadFailures :
         /\ loadError = f
         /\ model = LoadAssets(f).model
         /\ scaler_X = LoadAssets(f).scaler_X
         /\ scaler_Y = LoadAssets(f).scaler_Y
    /\ pc = "Idle"
    /\ ticks = 0
    /\ skipped = 0
    /\ current_data = EmptyObj
    /\ predicted_caci = Unset
    /\ field6 = Unset
    /\ runLog = NoLog
    /\ escaped = FALSE
    /\ run = RunRecord(Unset)
    /\ extTr = NoCall

Instances == IF pc = "Idle" THEN 0 ELSE 1

\* The interval trigger fires and the job is submitted to the executor.
Tick ==
    /\ ticks < MaxTicks
    /\ Instances < MaxInstances
    /\ ticks' = ticks + 1
    /\ pc' = "fetch"
    /\ run' = RunRecord(field6)
    /\ runLog' = NoLog
    /\ UNCHANGED <<model, scaler_X, scaler_Y, loadError, skipped, current_data,
                   predicted_caci, field6, escaped, extTr>>

\* Bug variant: the trigger starts a run although one is in flight.
TickSkipped_Overlap ==
    /\ ticks < MaxTicks
    /\ Instances >= MaxInstances
    /\ ticks' = ticks + 1
    /\ pc' = "fetch"
    /\ run' = RunRecord(field6)
    /\ runLog' = NoLog
    /\ UNCHANGED <<model, scaler_X, scaler_Y, loadError, skipped, current_data,
                   predicted_caci, field6, escaped, extTr>>

\* The trigger fires while the job's instance limit is reached: the scheduler
\* drops this run.
TickSkipped ==
    /\ ticks < MaxTicks
    /\ Instances >= MaxInstances
    /\ ticks' = ticks + 1
    /\ skipped' = skipped + 1
    /\ UNCHANGED <<model, scaler_X, scaler_Y, loadError, pc, current_data,
                   predicted_caci, field6, runLog, escaped, run, extTr>>

\* An exception reaches one of the job's except handlers: print and leave.
\* One the handler does not catch leaves the job.
Abort(text, exc, stage) ==
    /\ EndRun
    /\ IF JobCatches(exc)
       THEN /\ runLog' = LogLine(text, exc, StrOf(exc, stage), 0, Unset)
            /\ UNCHANGED escaped
       ELSE /\ escaped' = TRUE
            /\ UNCHANGED runLog

\* Bug variant: the fetch handler falls back to an all-zero reading and goes on.
FetchFailed_Fallback(exc) ==
    /\ pc' = "transform"
    /\ current_data' = AllBody(0)
    /\ runLog' = LogLine("ERROR: Failed to fetch latest data from TS.", exc,
                         StrOf(exc, "fetch"), 0, Unset)
    /\ UNCHANGED <<predicted_caci, escaped>>

\* Bug variant: the fetch handler prints and tries the read again.
FetchFailed_Retry(exc) ==
    /\ pc' = "fetch"
    /\ runLog' = LogLine("ERROR: Failed to fetch latest data from TS.", exc,
                         StrOf(exc, "fetch"), 0, Unset)
    /\ UNCHANGED <<current_data, predicted_caci, escaped>>

\* Lines 59-61: the fetch handler prints and returns.
FetchFailed(exc) == Abort("ERROR: Failed to fetch latest data from TS.", exc, "fetch")

\* Lines 47-61: fetch the latest feed and build current_data.
Fetch(resp) ==
    /\ pc = "fetch"
    /\ LET r == FetchStage(resp) IN
       IF r.ok
       THEN /\ pc' = "transform"
            /\ current_data' = r.val
            /\ run' = [run EXCEPT !.fetch = "ok", !.feed = resp, !.fetches = @ + 1]
            /\ UNCHANGED <<predicted_caci, runLog, escaped>>
       ELSE IF r.exc = "hang"
       THEN /\ Hang
            /\ run' = [run EXCEPT !.feed = resp, !.fetches = @ + 1]
       ELSE /\ FetchFailed(r.exc)
            /\ run' = [run EXCEPT !.fetch = "failed", !.feed = resp, !.fetches = @ + 1]
    /\ UNCHANGED <<model, scaler_X, scaler_Y, loadError, ticks, skipped, field6,
                   extTr>>

\* Outcomes of the loopback POST: the view answers, nothing listens, the
\* answer never comes, a 200 answer arrives without predicted_caci_1hr, or
\* requests refuses to encode the body (its JSON encoder rejects NaN in the
\* releases that pass allow_nan=False; earlier ones send it).
PostOutcomes == {"delivered", "unreachable", "noresponse", "garbled", "invalidjson"}

\* The outcomes a body admits: only one holding NaN can be refused.
Admits(net, body) ==
    net = "invalidjson" => \E k \in KeySet : body.obj[k].kind = "nan"

\* requests.post(internal_api_url, json=current_data, timeout=10)
PostStage(net, body) ==
    CASE net = "unreachable" -> Raise("ConnectionError")
      [] net = "noresponse" -> Raise(NoAnswer("transform"))
      [] net = "garbled" -> Ok(Response(200, Unset, "", <<>>, <<>>))
      [] net = "invalidjson" -> Raise("InvalidJSONError")
      [] OTHER -> Ok(predict_caci_internal(body))

\* Bug variant: no status test, and .get('predicted_caci_1hr', 0).
ReadAnswer_Lenient(resp) == Ok(IF resp.pred.has THEN resp.pred ELSE Value(0))

\* Lines 68-69: the status test and the subscript of the answer's JSON.
\* "refused" stands for the else branch.
ReadAnswer(resp) ==
    IF resp.status = 200
    THEN IF resp.pred.has THEN Ok(resp.pred) ELSE Raise("KeyError")
    ELSE Raise("refused")

\* Lines 64-69 and 75-79: post current_data to the endpoint and read the answer.
CallTransform(net) ==
    /\ pc = "transform"
    /\ Admits(net, [kind |-> "object", obj |-> current_data])
    /\ LET body == [kind |-> "object", obj |-> current_data]
           r == PostStage(net, body)
           sent == [run EXCEPT !.post = net, !.body = body, !.posts = @ + 1]
       IN
       IF ~r.ok
       THEN /\ run' = sent
            /\ IF r.exc = "hang"
               THEN Hang
               ELSE Abort("Critical Error during writing or API call:", r.exc, "transform")
       ELSE /\ run' = [sent EXCEPT !.tr = r.val]
            /\ LET a == ReadAnswer(r.val) IN
               IF a.ok
               THEN /\ pc' = "publish"
                    /\ predicted_caci' = a.val
                    /\ UNCHANGED <<current_data, runLog, escaped>>
               ELSE IF a.exc = "refused"
               THEN /\ EndRun
                    /\ runLog' = LogLine("Internal API Call Failed. Status:", "", "",
                                         r.val.status, Unset)
                    /\ UNCHANGED escaped
               ELSE Abort("Critical Error during writing or API call:", a.exc, "transform")
    /\ UNCHANGED <<model, scaler_X, scaler_Y, loadError, ticks, skipped, field6, extTr>>

\* Outcomes of the write to the store: accepted, answered with a non-success
\* response, connection error, or no answer.
StoreOutcomes == {"ok", "rejected", "neterr", "noresponse"}

\* requests.get(write_url): the response is not looked at.
PublishStage(outcome) ==
    CASE outcome = "neterr" -> Raise("ConnectionError")
      [] outcome = "noresponse" -> Raise(NoAnswer("publish"))
      [] OTHER -> Ok(outcome)

\* Lines 71-74 and 78-79: write the forecast to field6 and log.
Publish(outcome) ==
    /\ pc = "publish"
    /\ LET r == PublishStage(outcome) IN
       /\ run' = [run EXCEPT !.publish = outcome, !.publishes = @ + 1,
                             !.sent = predicted_caci]
       /\ field6' = IF outcome = "ok"
                    THEN Value(ParseDecimal(PyRepr(predicted_caci.val)))
                    ELSE field6
       /\ IF r.ok
          THEN /\ EndRun
               /\ runLog' = LogLine("CACI Forecasted and written to Field 6.", "", "", 0,
                                    predicted_caci)
               /\ UNCHANGED escaped
          ELSE IF r.exc = "hang"
          THEN Hang
          ELSE Abort("Critical Error during writing or API call:", r.exc, "publish")
    /\ UNCHANGED <<model, scaler_X, scaler_Y, loadError, ticks, skipped, extTr>>

\* Bug variant: the view calls scaler_X.fit_transform, refitting the scaler.
ExternalCall_Refit(body) ==
    /\ extTr' = [src |-> "ext", body |-> body, resp |-> predict_caci_internal(body)]
    /\ scaler_X' = "refit"
    /\ UNCHANGED <<model, scaler_Y, loadError, pc, ticks, skipped, current_data,
                   predicted_caci, field6, runLog, escaped, run>>

\* The endpoint called by someone other than the job.
ExternalCall(body) ==
    /\ extTr' = [src |-> "ext", body |-> body, resp |-> predict_caci_internal(body)]
    /\ UNCHANGED <<model, scaler_X, scaler_Y, loadError, pc, ticks, skipped, current_data,
                   predicted_caci, field6, runLog, escaped, run>>

Next ==
    \/ Tick
    \/ TickSkipped
    \/ \E resp \in TelemetryResponses : Fetch(resp)
    \/ \E net \in PostOutcomes : CallTransform(net)
    \/ \E outcome \in StoreOutcomes : Publish(outcome)
    \/ \E body \in ExternalBodies : ExternalCall(body)

Spec == Init /\ [][Next]_vars

\* ===================================================================
\* Properties
\* ===================================================================

\* C1: a run whose fetch stage failed has ended without posting to the
\* transform and without writing to the store, and field6 is what it was when
\* the run started.
C1_FetchFailureAborts ==
    run.fetch = "failed" =>
        /\ pc = "Idle"
        /\ run.post = "none"
        /\ run.tr = NoResponse
        /\ run.publish = "none"
        /\ run.publishes = 0
        /\ field6 = run.field6Before

\* A second run meets a feed with an unparsable field after the first run
\* wrote a forecast.
C1_Witness ==
    /\ run.fetch = "failed"
    /\ run.feed.kind = "object"
    /\ field6.has

\* C2: the store is written, or about to be, only in a run whose POST was
\* answered with status 200; a run whose transform call was refused or did not
\* get through publishes nothing and leaves field6 alone.
C2_PublishOnlyAfterSuccess ==
    /\ (pc = "publish" \/ run.publish # "none" \/ run.publishes > 0
            \/ field6 # run.field6Before)
          => (run.post \in {"delivered", "garbled"} /\ run.tr.status = 200)
    /\ (run.post # "none" /\ run.tr.status # 200)
          => (run.publish = "none" /\ pc # "publish" /\ field6 = run.field6Before)

\* A run whose POST was answered 400 or 500, or was not answered, has ended
\* with nothing published.
C2_Witness ==
    /\ run.post = "delivered"
    /\ run.tr.status \in {400, 500}
    /\ pc = "Idle"
    /\ run.publishes = 0

C4_UnansweredCallEndsRun ==
    (run.feed.kind = "noresponse" \/ run.post = "noresponse"
        \/ run.publish = "noresponse") => pc = "Idle"

\* The transform calls on record: the latest external one and the one the
\* current run made.
Calls ==
    (IF extTr.src = "ext" THEN {[body |-> extTr.body, resp |-> extTr.resp]} ELSE {})
        \cup (IF run.post = "delivered" THEN {[body |-> run.body, resp |-> run.tr]} ELSE {})

Omits(body) == body.kind = "object" /\ \E k \in KeySet : body.obj[k].kind = "absent"
ZeroFilled(body) ==
    [body EXCEPT !.obj = [k \in BodyKeys |->
        IF k \in KeySet /\ body.obj[k].kind = "absent" THEN Num(0) ELSE body.obj[k]]]

\* C5: with the assets loaded, a call whose reading omits some of the five
\* keys is answered as the call with those keys set to 0 is: same status, same
\* forecast.
C5_MissingKeyIsZero ==
    \A c \in Calls :
        (model # "None" /\ Omits(c.body)) =>
            /\ c.resp.status = predict_caci_internal(ZeroFilled(c.body)).status
            /\ c.resp.pred = predict_caci_internal(ZeroFilled(c.body)).pred

\* C6: if any of the three loads failed, model is None and every transform
\* call on record was answered 500 "Model not loaded" without going through
\* assembly or any of the three capabilities.
C6_LoadFailureDisablesTransform ==
    loadError # "none" =>
        /\ model = "None"
        /\ \A c \in Calls :
              /\ c.resp.status = 500
              /\ c.resp.error = "Model not loaded"
              /\ ~c.resp.pred.has
              /\ c.resp.steps = <<>>
              /\ c.resp.arg = <<>>

\* The output scaler failed to load after the model had loaded, and both an
\* external caller and a run have called the transform.
C6_Witness ==
    /\ loadError = "scaler_Y"
    /\ extTr.src = "ext"
    /\ extTr.body = [kind |-> "object", obj |-> AllBody(1)]
    /\ run.post = "delivered"
    /\ ticks = MaxTicks

\* The outcome a response carries in its body.
Outcome(resp) ==
    IF resp.pred.has THEN "success"
    ELSE IF resp.error = "Model not loaded" THEN "unavailable"
    ELSE "bad input"

\* C7: every transform call is answered 200, 400 or 500; 500 exactly when the
\* model is unavailable, 400 exactly for bad input, 200 exactly for success,
\* and a forecast is present exactly in the 200 answers.
C7_ThreeOutcomes ==
    \A c \in Calls :
        /\ c.resp.status \in {200, 400, 500}
        /\ c.resp.status = 500 <=> Outcome(c.resp) = "unavailable"
        /\ c.resp.status = 400 <=> Outcome(c.resp) = "bad input"
        /\ c.resp.status = 200 <=> Outcome(c.resp) = "success"
        /\ Outcome(c.resp) = "unavailable" <=> model = "None"
        /\ c.resp.pred.has <=> c.resp.status = 200

\* A bad-input answer and a success answer are both on record.
C7_Witness ==
    /\ extTr.src = "ext" /\ extTr.resp.status = 400
    /\ run.post = "delivered" /\ run.tr.status = 200

NotObject(body) == body.kind = "nonobject"
HasExtraKey(body) == body.kind = "object" /\ body.obj["Extra"].kind # "absent"
NonNumeric(body) ==
    body.kind = "object" /\ \E k \in KeySet : body.obj[k].kind \notin {"absent", "num"}

\* C8 as stated: with the assets loaded, a body that is not an object, a
\* reading with an extra or a missing key, or one with a non-numeric value is
\* always answered 400.
C8_MalformedIsClientError ==
    \A c \in Calls :
        (model # "None"
            /\ (NotObject(c.body) \/ HasExtraKey(c.body) \/ Omits(c.body)
                    \/ NonNumeric(c.body)))
          => c.resp.status = 400

\* C8 amended: with the assets loaded, a body that is not an object, a
\* reading with a missing key or one with a non-numeric value is answered 400
\* with the error message; a key beyond the five is ignored, so a reading with
\* five numeric features is answered 200 with or without it; and no call, with
\* or without assets, ends in an exception that leaves the view.
C8_MalformedIsClientErrorExceptExtraKey ==
    \A c \in Calls :
        /\ c.resp.error # "Internal Server Error"
        /\ (model # "None" /\ (NotObject(c.body) \/ Omits(c.body) \/ NonNumeric(c.body)))
              => /\ c.resp.status = 400
                 /\ c.resp.error = "Input data format is wrong."
                 /\ ~c.resp.pred.has
        /\ (model # "None" /\ ~NotObject(c.body) /\ ~Omits(c.body) /\ ~NonNumeric(c.body))
              => c.resp.status = 200

\* A non-numeric value went through the view with the assets loaded.
C8_Witness ==
    /\ model # "None"
    /\ extTr.src = "ext"
    /\ NonNumeric(extTr.body)
    /\ ~Omits(extTr.body)
    /\ extTr.resp.status = 400

ReadingOf(obj) ==
    [k \in BodyKeys |->
        IF k = "Extra" THEN Absent
        ELSE LET v == obj[Fields[CHOOSE i \in 1..5 : Keys[i] = k]]
             IN  IF v.kind = "absent" THEN Num(0) ELSE Num(v.num)]

\* C10: a feed in which every field is either absent or a number makes the
\* fetch succeed; the reading has 0 for each absent field, and the run goes on
\* to post exactly that reading to the transform.
C10_AbsentFieldReadsZero ==
    (run.feed.kind = "object"
        /\ \A f \in FieldSet : run.feed.obj[f].kind \in {"absent", "numstr"})
      => /\ run.fetch = "ok"
         /\ pc = "transform" \/ run.post # "none"
         /\ pc = "transform" => current_data = ReadingOf(run.feed.obj)
         /\ run.post # "none" => run.body = [kind |-> "object", obj |-> ReadingOf(run.feed.obj)]

\* A feed without field4 was fetched and the transform answered the posted
\* reading, AQI 0, with a forecast.
C10_Witness ==
    /\ run.feed.kind = "object"
    /\ run.feed.obj["field4"].kind = "absent"
    /\ run.feed.obj["field1"].kind = "numstr"
    /\ run.post = "delivered"
    /\ run.body.obj["AQI"] = Num(0)
    /\ run.tr.status = 200

\* C11: a call in which scale_input succeeded and predict then failed is
\* answered with a server-error status, not with the 400 of malformed input.
C11_PredictFailureIsServerError ==
    \A c \in Calls :
        (c.resp.steps = <<"assemble", "scale_input", "predict">> /\ ~c.resp.pred.has)
          => (c.resp.status >= 500 /\ c.resp.status <= 599)

\* C12: a run whose write failed, by a connection error or by a non-success
\* answer of the store, has ended after that one write and its log line is the
\* failure line, not the line that reports the forecast as written.
C12_PublishFailureIsLogged ==
    (run.publish \in {"neterr", "rejected"}) =>
        /\ pc = "Idle"
        /\ run.publishes = 1
        /\ runLog.text = "Critical Error during writing or API call:"
        /\ runLog.text # "CACI Forecasted and written to Field 6."

\* The stage in which the latest run failed, from what the run did.
FailedStage ==
    IF run.fetch = "failed" THEN "fetch"
    ELSE IF run.post \in {"unreachable", "noresponse", "invalidjson"} THEN "transform"
    ELSE IF run.post \in {"delivered", "garbled"} /\ ~ReadAnswer(run.tr).ok THEN "transform"
    ELSE IF run.publish \in {"neterr", "rejected"} THEN "publish"
    ELSE "none"

\* The stage a printed line names, from the line alone: its text and, for the
\* line shared by the transform call and the write, the exception message.
StageNamed(line) ==
    CASE line.text = "ERROR: Failed to fetch latest data from TS." -> "fetch"
      [] line.text = "Internal API Call Failed. Status:" -> "transform"
      [] line.text = "Critical Error during writing or API call:" ->
           (IF line.about = "api.thingspeak.com /update" THEN "publish" ELSE "transform")
      [] OTHER -> "none"

\* C13: the line printed by a run that failed names the stage that failed:
\* fetch, transform and publish failures print different lines.
C13_FailureLineNamesStage ==
    (pc = "Idle" /\ FailedStage # "none") => StageNamed(runLog) = FailedStage

C15_AssetsNeverChange ==
    /\ model = LoadAssets(loadError).model
    /\ scaler_X = LoadAssets(loadError).scaler_X
    /\ scaler_Y = LoadAssets(loadError).scaler_Y

\* An external call was answered while a run that had called the transform
\* was waiting to publish and a tick had been dropped.
C15_Witness ==
    /\ loadError = "none"
    /\ extTr.src = "ext"
    /\ extTr.resp.status = 200
    /\ run.post = "delivered"
    /\ pc = "publish"
    /\ skipped > 0

\* float() of a feed field as the fetch stage reads it.
FloatOf(v) ==
    IF v.kind = "absent" THEN Num(0)
    ELSE IF v.kind = "nanstr" THEN NaN
    ELSE Num(v.num)

\* C16: the reading built by the fetch stage has field i under key i, and the
\* vector handed to scale_input has, at position i, the value of field i of
\* the feed the run fetched (of key i of the body, for an external call).
C16_OrderPreserved ==
    /\ pc = "transform" =>
          \A i \in 1..5 : current_data[Keys[i]] = FloatOf(run.feed.obj[Fields[i]])
    /\ (run.post = "delivered" /\ run.tr.arg # <<>>) =>
          \A i \in 1..5 : run.tr.arg[i] = FloatOf(run.feed.obj[Fields[i]])
    /\ (extTr.src = "ext" /\ extTr.resp.arg # <<>>) =>
          \A i \in 1..5 : extTr.resp.arg[i] = extTr.body.obj[Keys[i]]

\* A feed with 1 in field2 alone went through a run to scale_input.
C16_Witness ==
    /\ run.feed.kind = "object"
    /\ run.feed.obj = OneHotFeed(2)
    /\ run.post = "delivered"
    /\ run.tr.status = 200
    /\ run.tr.arg[2] = Num(1)
    /\ run.tr.arg[3] = Num(0)

\* C17: the value a run hands to the write is the forecast in the answer its
\* own POST got, the store holds exactly that value after an accepted write,
\* and field6 is untouched by a run until its write is accepted.
C17_PublishedIsThisRunsForecast ==
    /\ pc = "publish" => (run.tr.pred.has /\ predicted_caci = run.tr.pred)
    /\ run.publish # "none" => (run.sent.has /\ run.sent = run.tr.pred)
    /\ run.publish = "ok" => field6 = run.tr.pred
    /\ run.publish # "ok" => field6 = run.field6Before

\* A later run replaced the forecast of an earlier one with its own.
C17_Witness ==
    /\ run.publish = "ok"
    /\ run.field6Before.has
    /\ field6 # run.field6Before
    /\ field6 = run.tr.pred

\* C18: a run issues the read, the POST and the write at most once each; the
\* POST only after a successful fetch, the write only after a 200 answer with
\* a forecast; and a run in which a stage failed has ended.
C18_EachStageOnceInOrder ==
    /\ run.fetches <= 1 /\ run.posts <= 1 /\ run.publishes <= 1
    /\ pc = "fetch" => (run.fetches = 0 /\ run.posts = 0 /\ run.publishes = 0)
    /\ pc = "transform" => (run.fetch = "ok" /\ run.posts = 0 /\ run.publishes = 0)
    /\ pc = "publish" => (run.posts = 1 /\ run.publishes = 0)
    /\ run.posts > 0 => (run.fetches = 1 /\ run.fetch = "ok")
    /\ run.publishes > 0 => (run.posts = 1 /\ run.tr.status = 200 /\ run.tr.pred.has)
    /\ FailedStage # "none" => pc = "Idle"

\* A run went through all three stages.
C18_Witness ==
    /\ run.fetches = 1
    /\ run.posts = 1
    /\ run.publishes = 1
    /\ pc = "Idle"

\* C19: in a process whose assets failed to load, field6 is never written:
\* no run reaches the write, and every run whose POST got through was answered
\* 500 "Model not loaded".
C19_NoPublishWithoutAssets ==
    loadError # "none" =>
        /\ ~field6.has
        /\ pc # "publish"
        /\ run.publish = "none"
        /\ run.publishes = 0
        /\ run.post = "delivered" =>
              (run.tr.status = 500 /\ run.tr.error = "Model not loaded" /\ pc = "Idle")

\* The last tick's run fetched a feed and was refused by the transform, the
\* input scaler having failed to load.
C19_Witness ==
    /\ loadError = "scaler_X"
    /\ run.fetch = "ok"
    /\ run.post = "delivered"
    /\ runLog.status = 500
    /\ ticks = MaxTicks

\* C20: the reading a run builds and posts has a number under each of the
\* five keys, and a feed in which a field is present but is not a number
\* makes the fetch fail.
C20_ReadingsAreNumeric ==
    /\ pc = "transform" => \A k \in KeySet : current_data[k].kind = "num"
    /\ run.post # "none" => \A k \in KeySet : run.body.obj[k].kind = "num"
    /\ (run.feed.kind = "object"
          /\ \E f \in FieldSet : run.feed.obj[f].kind \notin {"absent", "numstr"})
          => run.fetch = "failed"

====
